---- MODULE Spec2Model ----
(***************************************************************************)
(* Weather-station / sulcata habitat monitor (src/main.py).                *)
(*                                                                         *)
(* State: the in-memory series sensor_data, the durable JSON file, the     *)
(* alert state (ALERT_CHANNEL_ID, last_alert_time), the wall clock and the *)
(* in-flight POST /update handlers, which suspend only at the alert        *)
(* dispatch `await channel.send(...)`.                                     *)
(*                                                                         *)
(* Temperatures and humidities are integers (degrees / percent): every     *)
(* comparison of the code is against the envelope thresholds, and the      *)
(* integers contain values below, on and above each of them.  Times are    *)
(* integer seconds on one clock.                                           *)
(***************************************************************************)
EXTENDS Integers, Sequences, FiniteSets, TLC

VARIABLES
    phase,            \* "boot" -> "loaded" -> "running" -> "stopped"
    file,             \* durable file data/sensor_data.json
    sensor_data,      \* the in-memory series
    ALERT_CHANNEL_ID, \* alert destination, None when unset
    last_alert_time,  \* time of the last dispatched alert
    channel_cached,   \* bot.get_channel(ALERT_CHANNEL_ID) would find the channel
    clock,            \* wall clock, seconds
    req,              \* in-flight POST /update handlers
    resp,             \* response produced by the last step
    hist,             \* history: loaded readings followed by appended ones
    evals,            \* history: one record per alert evaluation
    overlapped,       \* history: some update started while another was suspended
    save_failed,      \* history: some save did not succeed
    alerts_set        \* history: set_alerts has run in this process

vars == <<phase, file, sensor_data, ALERT_CHANNEL_ID, last_alert_time,
          channel_cached, clock, req, resp, hist, evals, overlapped, save_failed,
          alerts_set>>

(***************************************************************************)
(* Program constants                                                       *)
(***************************************************************************)
temp_min == 18
temp_ideal_min == 27
temp_ideal_max == 35
temp_max == 40
hum_min == 40
hum_max == 60
ALERT_COOLDOWN == 1800
DEFAULT_LIMIT == 100
SECONDS_PER_HOUR == 3600

(***************************************************************************)
(* Bounds of the model                                                     *)
(***************************************************************************)
\* The source saves every 10 readings and retains 10000 = 1000 * 10: the
\* retention bound is a multiple of the save period.  Both are scaled down,
\* keeping that relation.
SAVE_EVERY == 2
RetentionBlocks == 2
MaxIngest == 3        \* accepted readings per run
MaxReqs == 2          \* POST /update handlers in flight at once
BootTime == 7200      \* clock at process start (any value >= ALERT_COOLDOWN)

MAX_DATA_POINTS == RetentionBlocks * SAVE_EVERY

None == "None"
Channel == "channel"  \* ctx.channel.id of the channel set_alerts runs in
Reqs == 1..MaxReqs

(***************************************************************************)
(* Sequence helpers: Python list slicing                                   *)
(***************************************************************************)
Max(a, b) == IF a >= b THEN a ELSE b
Min(a, b) == IF a <= b THEN a ELSE b

\* s[start:] of Python, for any integer start
PySliceFrom(s, start) ==
    LET n == Len(s)
        lo == IF start < 0 THEN Max(n + start, 0) ELSE Min(start, n)
    IN  SubSeq(s, lo + 1, n)

\* e for e in s if P(e), order kept
RECURSIVE SelectFrom(_, _)
SelectFrom(s, cutoff) ==
    IF s = <<>> THEN <<>>
    ELSE IF Head(s).time >= cutoff
         THEN <<Head(s)>> \o SelectFrom(Tail(s), cutoff)
         ELSE SelectFrom(Tail(s), cutoff)

(***************************************************************************)
(* Persistence: save_sensor_data / load_sensor_data                        *)
(***************************************************************************)
\* pd.Timestamp.isoformat(): the timestamp as an ISO-8601 string
IsoFormat(t) == [iso |-> t]
\* pd.Timestamp(string)
ParseTimestamp(s) == s.iso

\* writes the three known fields only
Serialize_known_fields(s) ==
    [i \in DOMAIN s |-> [temp |-> s[i].temp, hum |-> s[i].hum, extra |-> {},
                         time |-> IsoFormat(s[i].time)]]

\* {**item, "time": item["time"].isoformat()} for every item
Serialize(s) ==
    [i \in DOMAIN s |-> [s[i] EXCEPT !.time = IsoFormat(s[i].time)]]
\* entry["time"] = pd.Timestamp(entry["time"]) for every entry
Deserialize(d) ==
    [i \in DOMAIN d |-> [d[i] EXCEPT !.time = ParseTimestamp(d[i].time)]]

SaveOutcomes == {"ok", "open_failed", "write_failed"}
SaveInputs == SaveOutcomes \cup {"none"}

\* an exception met while saving reaches the caller
SaveRaises_uncaught(outcome) == outcome \in {"open_failed", "write_failed"}

\* save_sensor_data() raises to its caller: never, its body is one try block
\* whose `except Exception` logs the error
SaveRaises(outcome) == FALSE

\* the file after save_sensor_data() of series s
FileAfterSave(f, s, outcome) ==
    CASE outcome = "ok"           -> [kind |-> "ok", data |-> Serialize(s)]
      [] outcome = "open_failed"  -> f
      [] outcome = "write_failed" -> [kind |-> "corrupt", data |-> <<>>]

\* a file that cannot be parsed leaves the series as it was
LoadedData_keeps_on_error(f, current) ==
    CASE f.kind = "missing" -> current
      [] f.kind = "corrupt" -> current
      [] f.kind = "ok"      -> PySliceFrom(Deserialize(f.data), -MAX_DATA_POINTS)

\* sensor_data after load_sensor_data(): a missing file skips the whole
\* body, an exception while reading or parsing assigns the empty list
LoadedData(f, current) ==
    CASE f.kind = "missing" -> current
      [] f.kind = "corrupt" -> <<>>
      [] f.kind = "ok"      -> PySliceFrom(Deserialize(f.data), -MAX_DATA_POINTS)

(***************************************************************************)
(* Series store: append and trim (update_data)                             *)
(***************************************************************************)
\* the eviction is not applied in the step that appends
TrimData_deferred(s) == s

\* keeps the oldest readings instead of the newest
TrimData_keep_oldest(s) ==
    IF Len(s) > MAX_DATA_POINTS THEN SubSeq(s, 1, MAX_DATA_POINTS) ELSE s

TrimData(s) ==
    IF Len(s) > MAX_DATA_POINTS THEN PySliceFrom(s, -MAX_DATA_POINTS) ELSE s

AppendData(s, entry) == TrimData(Append(s, entry))

\* saves on every second multiple of the period only
ShouldSave_half_as_often(s) == Len(s) % (2 * SAVE_EVERY) = 0

ShouldSave(s) == Len(s) % SAVE_EVERY = 0

(***************************************************************************)
(* Ingestion payloads and validation (update_data)                         *)
(***************************************************************************)
Num(v) == [kind |-> "num", val |-> v]
Absent == [kind |-> "absent", val |-> 0]
NonNumeric == [kind |-> "bad", val |-> 0]
\* extra: the keys of the JSON object other than temp and hum
PayloadWith(t, h, x) == [json |-> TRUE, temp |-> t, hum |-> h, extra |-> x]
Payload(t, h) == PayloadWith(t, h, {})
InvalidJson == [json |-> FALSE, temp |-> Absent, hum |-> Absent, extra |-> {}]

\* the exception raised inside the try block before the append, if any
RaisedBy(p) ==
    CASE ~p.json                -> "JSONDecodeError"
      [] p.json /\ (p.temp.kind = "absent" \/ p.hum.kind = "absent")
                                -> "HTTPException400"
      [] p.json /\ p.temp.kind # "absent" /\ p.hum.kind # "absent"
              /\ (p.temp.kind = "bad" \/ p.hum.kind = "bad")
                                -> "ValueError"
      [] OTHER                  -> "none"

\* the except clauses: JSONDecodeError -> 400, any other Exception -> 500
\* (HTTPException is an Exception, so the 400 raised for a missing field is
\* caught by the second clause)
StatusFor(exc) ==
    CASE exc = "none"            -> 200
      [] exc = "JSONDecodeError" -> 400
      [] OTHER                   -> 500

UpdateStatusCode(p) == StatusFor(RaisedBy(p))

\* the extra fields copied into the entry: every key but "time" (temp and
\* hum are in the entry already)
ExtraFields(p) == p.extra \ {"time"}

\* the entry built from an accepted payload
NewEntry(p, now) ==
    [temp |-> p.temp.val, hum |-> p.hum.val, time |-> now,
     extra |-> ExtraFields(p)]

\* appends as soon as temp has been converted, before hum is looked at
StoreAfterUpdate_append_early(s, p, now) ==
    IF p.json /\ p.temp.kind = "num"
    THEN AppendData(s, NewEntry(p, now))
    ELSE s

\* the series after the validation and append part of update_data
StoreAfterUpdate(s, p, now) ==
    IF RaisedBy(p) = "none"
    THEN AppendData(s, NewEntry(p, now))
    ELSE s

(***************************************************************************)
(* Classification                                                          *)
(***************************************************************************)
\* the ideal band loses its lower boundary
TempBand_exclusive_ideal(temp) ==
    IF temp < temp_min THEN "too-cold"
    ELSE IF temp <= temp_ideal_min THEN "cool"
    ELSE IF temp <= temp_ideal_max THEN "ideal"
    ELSE IF temp <= temp_max THEN "warm"
    ELSE "too-hot"

\* sulcata_status: temperature band
TempBand(temp) ==
    IF temp < temp_min THEN "too-cold"
    ELSE IF temp < temp_ideal_min THEN "cool"
    ELSE IF temp <= temp_ideal_max THEN "ideal"
    ELSE IF temp <= temp_max THEN "warm"
    ELSE "too-hot"

\* sulcata_status: humidity band
HumBand(hum) ==
    IF hum < hum_min THEN "dry"
    ELSE IF hum <= hum_max THEN "ideal"
    ELSE "humid"

\* the status follows the alert band instead of the ideal band
TempStatus_alert_band(temp) ==
    IF temp_min <= temp /\ temp <= temp_max THEN "ok" ELSE "warning"

\* update_data: tortoise_status of the response
TempStatus(temp) ==
    IF temp_ideal_min <= temp /\ temp <= temp_ideal_max THEN "ok" ELSE "warning"
HumStatus(hum) ==
    IF hum_min <= hum /\ hum <= hum_max THEN "ok" ELSE "warning"

\* the safe boundaries themselves raise an alert
AlertNeeded_inclusive(temp, hum) ==
    \/ temp <= temp_min
    \/ temp >= temp_max
    \/ hum <= hum_min - 10
    \/ hum >= hum_max + 15

\* check_conditions_and_alert: alert_needed
AlertNeeded(temp, hum) ==
    \/ temp < temp_min
    \/ temp > temp_max
    \/ hum < hum_min - 10
    \/ hum > hum_max + 15

\* the cooldown is never consulted
PassesGuard_no_cooldown(channel, now, last) == channel # None

\* the cooldown must be strictly exceeded
PassesGuard_strict(channel, now, last) ==
    ~(channel = None \/ now - last <= ALERT_COOLDOWN)

\* check_conditions_and_alert: the early return is not taken
PassesGuard(channel, now, last) ==
    ~(channel = None \/ now - last < ALERT_COOLDOWN)

\* the cooldown restarts whether or not the alert was delivered
LastAlertAfterSend_always(ok, current_time, last) == current_time

\* last_alert_time after channel.send: the assignment follows the send
\* inside the try block, so a send that raises skips it
LastAlertAfterSend(ok, current_time, last) ==
    IF ok THEN current_time ELSE last

\* an exception of channel.send reaches update_data
SendRaises_uncaught(ok) == ~ok

\* check_conditions_and_alert raises to update_data: never, `except
\* Exception` logs the failed dispatch
SendRaises(ok) == FALSE

(***************************************************************************)
(* Responses                                                               *)
(***************************************************************************)
NoResponse == [op |-> "none"]
UpdateResponse(code, temp, hum) ==
    [op |-> "update", code |-> code, temp |-> temp, hum |-> hum,
     temp_status |-> TempStatus(temp), hum_status |-> HumStatus(hum)]
UpdateError(code, p) == [op |-> "update_error", code |-> code, payload |-> p]

IdleReq == [pc |-> "idle", temp |-> 0, hum |-> 0, current_time |-> 0, idx |-> 0]

\* sulcata_status: the report on the latest reading
StatusResponse(s) ==
    IF s = <<>> THEN [op |-> "sulcata_status", data |-> FALSE]
    ELSE [op |-> "sulcata_status", data |-> TRUE,
          temp |-> s[Len(s)].temp, hum |-> s[Len(s)].hum,
          temp_band |-> TempBand(s[Len(s)].temp),
          hum_band |-> HumBand(s[Len(s)].hum)]

(***************************************************************************)
(* Query: get_data                                                         *)
(***************************************************************************)
NoHours == [given |-> FALSE, val |-> 0]
Hours(h) == [given |-> TRUE, val |-> h]

\* `if hours:` is taken for a supplied, non-zero value
FilterByHours(s, hours, now) ==
    IF hours.given /\ hours.val # 0
    THEN SelectFrom(s, now - hours.val * SECONDS_PER_HOUR)
    ELSE s

\* data[-limit:]
LimitData(s, limit) == PySliceFrom(s, -limit)

GetDataResult(s, hours, limit, now) ==
    IF s = <<>> THEN <<>>
    ELSE Serialize(LimitData(FilterByHours(s, hours, now), limit))

\* the filter and the limit are applied to the store itself
StoreAfterGetData_in_place(s, hours, limit, now) ==
    LimitData(FilterByHours(s, hours, now), limit)

\* sensor_data after get_data: the handler filters and slices
\* data = sensor_data.copy(), and every later step builds a new list
StoreAfterGetData(s, hours, limit, now) == s

(***************************************************************************)
(* Chat commands over the series: !stats                                   *)
(***************************************************************************)
\* df[df["time"] >= cutoff_time] with cutoff_time = now - hours
FilterSince(s, hours, now) == SelectFrom(s, now - hours * SECONDS_PER_HOUR)

\* send_stats: what the command answers
StatsResult(s, hours, now) ==
    IF s = <<>> THEN [result |-> "no_data_yet", kept |-> <<>>]
    ELSE IF FilterSince(s, hours, now) = <<>>
         THEN [result |-> "no_data_in_window", kept |-> <<>>]
         ELSE [result |-> "stats", kept |-> FilterSince(s, hours, now)]

(***************************************************************************)
(* Chat commands over the series: !plot_rolling                            *)
(***************************************************************************)
\* df.sort_values("time"): insertion of each row after the rows that are
\* not later than it
RECURSIVE SortByTime(_)
SortByTime(s) ==
    IF s = <<>> THEN <<>>
    ELSE LET init == SortByTime(SubSeq(s, 1, Len(s) - 1))
             x == s[Len(s)]
             k == Cardinality({i \in DOMAIN init : init[i].time <= x.time})
         IN  SubSeq(init, 1, k) \o <<x>> \o SubSeq(init, k + 1, Len(init))

\* a missing value, and the mean sum / n
NaN == [nan |-> TRUE, sum |-> 0, n |-> 0]
Mean(sum, n) == [nan |-> FALSE, sum |-> sum, n |-> n]

RECURSIVE SumOf(_)
SumOf(xs) == IF xs = <<>> THEN 0 ELSE Head(xs) + SumOf(Tail(xs))

\* Series.rolling(window=w, center=True).mean() for w >= 0: position i
\* takes the w values that end (w - 1) \div 2 places after it, and has a
\* value only when all w of them exist (min_periods = w) and w is not 0
RollingMean(xs, w) ==
    [i \in DOMAIN xs |->
        LET hi == i + ((w - 1) \div 2)
            lo == hi - w + 1
        IN  IF w >= 1 /\ lo >= 1 /\ hi <= Len(xs)
            THEN Mean(SumOf(SubSeq(xs, lo, hi)), w)
            ELSE NaN]

\* fillna(method='ffill'): a missing value takes the last value before it
FFill(ys) ==
    [i \in DOMAIN ys |->
        LET before == {j \in 1..i : ~ys[j].nan}
        IN  IF before = {} THEN NaN
            ELSE ys[CHOOSE j \in before : \A k \in before : k <= j]]

\* fillna(method='bfill'): a missing value takes the first value after it
BFill(ys) ==
    [i \in DOMAIN ys |->
        LET after == {j \in i..Len(ys) : ~ys[j].nan}
        IN  IF after = {} THEN NaN
            ELSE ys[CHOOSE j \in after : \A k \in after : j <= k]]

Smooth(xs, w) == BFill(FFill(RollingMean(xs, w)))

\* send_plot_rolling up to the plot: what the command answers.  rolling()
\* rejects a negative window with a ValueError, which the command does not
\* catch.
RollingResult(s, hours, window, now) ==
    LET df == FilterSince(s, hours, now)
        sorted == SortByTime(df)
        none == [series |-> df, temp_smooth |-> <<>>, hum_smooth |-> <<>>]
    IN  IF s = <<>> THEN [result |-> "no_data_yet"] @@ none
        ELSE IF df = <<>> \/ Len(df) < window
             THEN [result |-> "not_enough_data"] @@ none
        ELSE IF window < 0 THEN [result |-> "ValueError"] @@ none
        ELSE [result |-> "plot", series |-> sorted,
              temp_smooth |-> Smooth([i \in DOMAIN sorted |-> sorted[i].temp], window),
              hum_smooth |-> Smooth([i \in DOMAIN sorted |-> sorted[i].hum], window)]

(***************************************************************************)
(* Inputs                                                                  *)
(***************************************************************************)
\* a file of n readings written by an earlier run, half an hour apart
StoredFile(n) ==
    [kind |-> "ok",
     data |-> [i \in 1..n |->
                 [temp |-> temp_ideal_min + i, hum |-> hum_min + i,
                  extra |-> IF i = 1 THEN {"battery"} ELSE {},
                  time |-> IsoFormat(BootTime - (n - i + 1) * ALERT_COOLDOWN)]]]

InitialFiles ==
    {[kind |-> "missing", data |-> <<>>], [kind |-> "corrupt", data |-> <<>>]}
    \cup {StoredFile(n) : n \in 0..(MAX_DATA_POINTS + 1)}

\* an ideal reading, a temperature breach, a humidity breach
ValidPayloads ==
    {Payload(Num(30), Num(50)), Payload(Num(41), Num(50)), Payload(Num(30), Num(20))}
InvalidPayloads ==
    {InvalidJson,
     Payload(Absent, Num(50)), Payload(Num(30), Absent),
     Payload(NonNumeric, Num(50)), Payload(Num(41), NonNumeric)}
Payloads == ValidPayloads \cup InvalidPayloads
QueryPayloads == {Payload(Num(30), Num(50))}
\* an ideal reading and a temperature breach
AlertPayloads == {Payload(Num(30), Num(50)), Payload(Num(41), Num(50))}
StorePayloads == {Payload(Num(30), Num(50)),
                  PayloadWith(Num(41), Num(20), {"battery", "time"})}
                     \cup InvalidPayloads

\* every threshold of the envelope with its two neighbours, and a value
\* well inside the too-cold and the ideal bands
Around(S) == UNION {{x - 1, x, x + 1} : x \in S}
SweepTemps == Around({temp_min, temp_ideal_min, temp_ideal_max, temp_max})
                  \cup {temp_min - 3, temp_ideal_min + 3}
SweepHums == Around({hum_min - 10, hum_min, hum_max, hum_max + 15})
                 \cup {hum_min + 10}
SweepPayloads == {Payload(Num(t), Num(h)) : t \in SweepTemps, h \in SweepHums}

\* a breach of temperature only and a breach of humidity only
CrossPayloads == {Payload(Num(41), Num(50)), Payload(Num(30), Num(20))}
\* a temperature breach
BreachPayloads == {Payload(Num(41), Num(50))}

\* seconds between an accepted request and the event before it
Deltas == {10, ALERT_COOLDOWN - 10}

HoursInputs == {NoHours, Hours(0), Hours(1)}
LimitInputs == {0, 1, 2, DEFAULT_LIMIT}
\* hours of the chat commands: an integer, 24 when not given
CommandHours == {0, 1, 24}
\* window of !plot_rolling: an integer, 5 when not given
RollingWindows == {-1, 0, 1, 2, 3, 5}

\* the environment variable ALERT_CHANNEL_ID: unset, not an integer, or
\* the id of a channel
EnvInputs ==
    {[kind |-> "unset", id |-> None], [kind |-> "invalid", id |-> None],
     [kind |-> "int", id |-> Channel]}

\* ALERT_CHANNEL_ID after the block that reads the environment
EnvChannel(env) == IF env.kind = "int" THEN env.id ELSE None

\* the alert settings keep what the environment gave
ChannelAfterImport_keeps_env(env) == EnvChannel(env)

\* ALERT_CHANNEL_ID once the module is imported: the alert settings assign
\* None after the environment has been read
ChannelAfterImport(env) == None

(***************************************************************************)
(* Initial state: the module has been imported                             *)
(***************************************************************************)
Init ==
    /\ phase = "boot"
    /\ file \in InitialFiles
    /\ sensor_data = <<>>
    /\ \E env \in EnvInputs : ALERT_CHANNEL_ID = ChannelAfterImport(env)
    /\ last_alert_time = 0
    /\ channel_cached \in (IF ALERT_CHANNEL_ID = None THEN {FALSE} ELSE BOOLEAN)
    /\ alerts_set = FALSE
    /\ clock = BootTime
    /\ req = [r \in Reqs |-> IdleReq]
    /\ resp = NoResponse
    /\ hist = <<>>
    /\ evals = <<>>
    /\ overlapped = FALSE
    /\ save_failed = FALSE

(***************************************************************************)
(* Actions                                                                 *)
(***************************************************************************)
\* load_sensor_data(), called by __main__ and again by startup_event
Load ==
    /\ phase \in {"boot", "loaded"}
    /\ UNCHANGED alerts_set
    /\ phase' = IF phase = "boot" THEN "loaded" ELSE "running"
    /\ sensor_data' = LoadedData(file, sensor_data)
    /\ hist' = sensor_data'
    /\ resp' = NoResponse
    /\ UNCHANGED <<file, ALERT_CHANNEL_ID, last_alert_time, channel_cached, clock,
                   req, evals, overlapped, save_failed>>

\* the evaluations whose dispatch is still awaited
Waiting == {req[q].idx : q \in {x \in Reqs : req[x].pc = "sending"}}

\* each call of load_sensor_data looks the file up anew: between the call of
\* __main__ and the call of startup_event the file may have been removed or
\* overwritten by something other than this process
FileDamaged(kind) ==
    /\ phase \in {"boot", "loaded"}
    /\ UNCHANGED alerts_set
    /\ file.kind = "ok"
    /\ file' = [kind |-> kind, data |-> <<>>]
    /\ resp' = NoResponse
    /\ UNCHANGED <<phase, sensor_data, ALERT_CHANNEL_ID, last_alert_time,
                   channel_cached, clock, req, hist, evals, overlapped, save_failed>>

\* the record of one accepted reading and of its evaluation by
\* check_conditions_and_alert; save: how its periodic save ended; code: the
\* status of the response (0 until the handler responds); state "aborted":
\* the handler left the try block before the evaluation
EvalRec(temp, hum, now, state, save) ==
    [temp |-> temp, hum |-> hum, t |-> now,
     save |-> save,
     waiting |-> Waiting,
     code |-> IF state = "pending" THEN 0 ELSE IF state = "aborted" THEN 500 ELSE 200,
     dest |-> ALERT_CHANNEL_ID # None,
     last |-> last_alert_time,
     passed |-> PassesGuard(ALERT_CHANNEL_ID, now, last_alert_time),
     found |-> channel_cached,
     state |-> state,
     last_before_done |-> last_alert_time,
     last_done |-> last_alert_time]

\* POST /update, up to its response or to the suspension at channel.send.
\* outcome: how the periodic save ends ("none" when no save is due).
UpdateData(r, p, dt, outcome) ==
    /\ phase = "running"
    /\ UNCHANGED alerts_set
    /\ req[r].pc = "idle"
    /\ \A q \in Reqs : q < r => req[q].pc # "idle"
    /\ Len(evals) < MaxIngest
    /\ clock' = IF RaisedBy(p) = "none" THEN clock + dt ELSE clock
    /\ sensor_data' = StoreAfterUpdate(sensor_data, p, clock + dt)
    /\ UNCHANGED <<phase, ALERT_CHANNEL_ID, last_alert_time, channel_cached>>
    /\ IF RaisedBy(p) # "none"
       THEN /\ outcome = "none"
            /\ resp' = UpdateError(UpdateStatusCode(p), p)
            /\ UNCHANGED <<file, req, hist, evals, overlapped, save_failed>>
       ELSE LET temp == p.temp.val
                hum == p.hum.val
                saving == ShouldSave(sensor_data')
                raised == saving /\ SaveRaises(outcome)
                passed == PassesGuard(ALERT_CHANNEL_ID, clock', last_alert_time)
                needed == passed /\ AlertNeeded(temp, hum)
            IN  /\ (outcome = "none") = ~saving
                /\ hist' = Append(hist, NewEntry(p, clock'))
                /\ overlapped' = (overlapped \/ \E q \in Reqs : req[q].pc = "sending")
                /\ file' = IF saving THEN FileAfterSave(file, sensor_data', outcome)
                                     ELSE file
                /\ save_failed' = (save_failed \/ (saving /\ outcome # "ok"))
                /\ IF raised
                   THEN /\ req' = req
                        /\ evals' = Append(evals,
                             EvalRec(temp, hum, clock', "aborted", outcome))
                        /\ resp' = UpdateError(StatusFor("OSError"), p)
                   ELSE IF needed /\ channel_cached
                   THEN /\ req' = [req EXCEPT ![r] =
                                     [pc |-> "sending", temp |-> temp, hum |-> hum,
                                      current_time |-> clock', idx |-> Len(evals) + 1]]
                        /\ evals' = Append(evals,
                             EvalRec(temp, hum, clock', "pending", outcome))
                        /\ resp' = NoResponse
                   ELSE /\ req' = req
                        /\ evals' = Append(evals,
                             EvalRec(temp, hum, clock',
                                IF ~passed THEN "skipped"
                                ELSE IF ~needed THEN "quiet" ELSE "nochannel",
                                outcome))
                        /\ resp' = UpdateResponse(200, temp, hum)

\* channel.send returns or raises; the handler resumes and responds
SendDone(r, ok) ==
    /\ phase = "running"
    /\ UNCHANGED alerts_set
    /\ req[r].pc = "sending"
    /\ last_alert_time' =
          LastAlertAfterSend(ok, req[r].current_time, last_alert_time)
    /\ evals' = [evals EXCEPT ![req[r].idx] =
                   [@ EXCEPT !.state = IF ok THEN "sent" ELSE "failed",
                             !.code = IF SendRaises(ok) THEN StatusFor("HTTPException")
                                                        ELSE StatusFor("none"),
                             !.last_before_done = last_alert_time,
                             !.last_done = last_alert_time']]
    /\ resp' = IF SendRaises(ok)
                THEN UpdateError(StatusFor("HTTPException"),
                                 Payload(Num(req[r].temp), Num(req[r].hum)))
                ELSE UpdateResponse(200, req[r].temp, req[r].hum)
    /\ req' = [req EXCEPT ![r] = IdleReq]
    /\ UNCHANGED <<phase, file, sensor_data, ALERT_CHANNEL_ID, channel_cached,
                   clock, hist, overlapped, save_failed>>

\* !set_alerts, which ends with the status report; the command arrives in
\* the channel it names, so the bot has that channel cached
SetAlerts ==
    /\ phase = "running"
    /\ ALERT_CHANNEL_ID' = Channel
    /\ channel_cached' = TRUE
    /\ alerts_set' = TRUE
    /\ resp' = StatusResponse(sensor_data) @@ [alert_channel |-> Channel]
    /\ UNCHANGED <<phase, file, sensor_data, last_alert_time, clock, req, hist,
                   evals, overlapped, save_failed>>

\* the channel is deleted or leaves the bot's cache
ChannelLost ==
    /\ phase = "running"
    /\ UNCHANGED alerts_set
    /\ channel_cached
    /\ channel_cached' = FALSE
    /\ resp' = NoResponse
    /\ UNCHANGED <<phase, file, sensor_data, ALERT_CHANNEL_ID, last_alert_time,
                   clock, req, hist, evals, overlapped, save_failed>>

\* !sulcata_status
SulcataStatus ==
    /\ phase = "running"
    /\ UNCHANGED alerts_set
    /\ resp' = StatusResponse(sensor_data)
    /\ UNCHANGED <<phase, file, sensor_data, ALERT_CHANNEL_ID, last_alert_time,
                   channel_cached, clock, req, hist, evals, overlapped, save_failed>>

\* GET /data
GetData(hours, limit) ==
    /\ phase = "running"
    /\ UNCHANGED alerts_set
    /\ resp' = [op |-> "data", hours |-> hours, limit |-> limit, now |-> clock,
                data |-> GetDataResult(sensor_data, hours, limit, clock)]
    /\ sensor_data' = StoreAfterGetData(sensor_data, hours, limit, clock)
    /\ UNCHANGED <<phase, file, ALERT_CHANNEL_ID, last_alert_time,
                   channel_cached, clock, req, hist, evals, overlapped, save_failed>>

\* GET /health
HealthCheck ==
    /\ phase = "running"
    /\ UNCHANGED alerts_set
    /\ resp' = [op |-> "health", data_points |-> Len(sensor_data)]
    /\ UNCHANGED <<phase, file, sensor_data, ALERT_CHANNEL_ID, last_alert_time,
                   channel_cached, clock, req, hist, evals, overlapped, save_failed>>

\* !stats [hours]
SendStats(hours) ==
    /\ phase = "running"
    /\ UNCHANGED alerts_set
    /\ resp' = [op |-> "stats", hours |-> hours, now |-> clock,
                result |-> StatsResult(sensor_data, hours, clock).result,
                kept |-> StatsResult(sensor_data, hours, clock).kept]
    /\ UNCHANGED <<phase, file, sensor_data, ALERT_CHANNEL_ID, last_alert_time,
                   channel_cached, clock, req, hist, evals, overlapped, save_failed>>

\* !plot_rolling [hours] [window]
SendPlotRolling(hours, window) ==
    /\ phase = "running"
    /\ UNCHANGED alerts_set
    /\ resp' = [op |-> "plot_rolling", hours |-> hours, window |-> window,
                now |-> clock]
               @@ RollingResult(sensor_data, hours, window, clock)
    /\ UNCHANGED <<phase, file, sensor_data, ALERT_CHANNEL_ID, last_alert_time,
                   channel_cached, clock, req, hist, evals, overlapped, save_failed>>

\* shutdown_event: the final save
Shutdown(outcome) ==
    /\ phase = "running"
    /\ UNCHANGED alerts_set
    /\ \A r \in Reqs : req[r].pc = "idle"
    /\ phase' = "stopped"
    /\ file' = FileAfterSave(file, sensor_data, outcome)
    /\ save_failed' = (save_failed \/ outcome # "ok")
    /\ resp' = NoResponse
    /\ UNCHANGED <<sensor_data, ALERT_CHANNEL_ID, last_alert_time, channel_cached,
                   clock, req, hist, evals, overlapped>>

\* the whole service
Next ==
    \/ Load
    \/ \E r \in Reqs, p \in Payloads, dt \in Deltas, outcome \in SaveInputs :
          UpdateData(r, p, dt, outcome)
    \/ \E r \in Reqs, ok \in BOOLEAN : SendDone(r, ok)
    \/ SetAlerts
    \/ ChannelLost
    \/ SulcataStatus
    \/ \E hours \in HoursInputs, limit \in LimitInputs : GetData(hours, limit)
    \/ \E hours \in CommandHours : SendStats(hours)
    \/ \E hours \in CommandHours, window \in RollingWindows :
          SendPlotRolling(hours, window)
    \/ HealthCheck
    \/ \E outcome \in SaveOutcomes : Shutdown(outcome)

Spec == Init /\ [][Next]_vars

(***************************************************************************)
(* The state graph of Spec grows with the product of all inputs.  The      *)
(* specifications below run the same actions, each over the inputs of one  *)
(* concern.                                                                *)
(***************************************************************************)

\* store and persistence: any durable file, valid and invalid payloads, any
\* save outcome; no alert destination is ever set
NextStore ==
    \/ Load
    \/ \E r \in Reqs, p \in StorePayloads, dt \in Deltas, outcome \in SaveInputs :
          UpdateData(r, p, dt, outcome)
    \/ \E outcome \in SaveOutcomes : Shutdown(outcome)

SpecStore == Init /\ [][NextStore]_vars

\* startup: the two loads, with the file changing under them, then ingestion
NextLoad ==
    \/ Load
    \/ \E kind \in {"missing", "corrupt"} : FileDamaged(kind)
    \/ \E r \in Reqs, p \in QueryPayloads, dt \in Deltas, outcome \in {"none", "ok"} :
          UpdateData(r, p, dt, outcome)

SpecLoad == Init /\ [][NextLoad]_vars

\* alerting: a first run (no durable file), saves succeed
InitFresh == Init /\ file.kind = "missing"

NextAlert ==
    \/ Load
    \/ \E r \in Reqs, p \in AlertPayloads, dt \in Deltas, outcome \in {"none", "ok"} :
          UpdateData(r, p, dt, outcome)
    \/ \E r \in Reqs, ok \in BOOLEAN : SendDone(r, ok)
    \/ SetAlerts
    \/ ChannelLost

SpecAlert == InitFresh /\ [][NextAlert]_vars

\* the read side: a store filled by ingestion and queried by GET /data and
\* the status command
NextQuery ==
    \/ Load
    \/ \E r \in Reqs, p \in QueryPayloads, dt \in Deltas, outcome \in {"none", "ok"} :
          UpdateData(r, p, dt, outcome)
    \/ SulcataStatus
    \/ \E hours \in HoursInputs, limit \in LimitInputs : GetData(hours, limit)
    \/ \E hours \in CommandHours : SendStats(hours)
    \/ \E hours \in CommandHours, window \in RollingWindows :
          SendPlotRolling(hours, window)

SpecQuery == Init /\ [][NextQuery]_vars

\* alerting on breaches of different conditions
NextCooldown ==
    \/ Load
    \/ SetAlerts
    \/ \E r \in Reqs, p \in CrossPayloads, dt \in Deltas, outcome \in {"none", "ok"} :
          UpdateData(r, p, dt, outcome)
    \/ \E r \in Reqs, ok \in BOOLEAN : SendDone(r, ok)

SpecCooldown == InitFresh /\ [][NextCooldown]_vars

\* alerting with periodic saves that may fail
NextSaveFail ==
    \/ Load
    \/ SetAlerts
    \/ \E r \in Reqs, p \in BreachPayloads, dt \in Deltas, outcome \in SaveInputs :
          UpdateData(r, p, dt, outcome)
    \/ \E r \in Reqs, ok \in BOOLEAN : SendDone(r, ok)

SpecSaveFail == InitFresh /\ [][NextSaveFail]_vars

\* overlapping ingestions of breaching readings on a store loaded at or
\* next to the retention bound, observed by the read-only handlers
InitNearFull ==
    Init /\ file \in {StoredFile(MAX_DATA_POINTS - 1), StoredFile(MAX_DATA_POINTS)}

NextOverlap ==
    \/ Load
    \/ SetAlerts
    \/ \E r \in Reqs, p \in BreachPayloads, dt \in Deltas, outcome \in {"none", "ok"} :
          UpdateData(r, p, dt, outcome)
    \/ \E r \in Reqs, ok \in BOOLEAN : SendDone(r, ok)
    \/ HealthCheck
    \/ \E limit \in LimitInputs : GetData(NoHours, limit)
    \/ SulcataStatus

SpecOverlap == InitNearFull /\ [][NextOverlap]_vars

\* classification: one reading swept across every threshold of the envelope
NextSweep ==
    \/ Load
    \/ SetAlerts
    \/ ChannelLost
    \/ \E r \in Reqs, p \in SweepPayloads, dt \in Deltas, outcome \in {"none", "ok"} :
          evals = <<>> /\ UpdateData(r, p, dt, outcome)
    \/ \E r \in Reqs, ok \in BOOLEAN : SendDone(r, ok)
    \/ SulcataStatus

SpecSweep == InitFresh /\ [][NextSweep]_vars

(***************************************************************************)
(* Properties                                                              *)
(***************************************************************************)
\* the last k elements of s, all of s when it is shorter
TailOf(s, k) ==
    LET m == IF k < Len(s) THEN k ELSE Len(s)
    IN  [i \in 1..m |-> s[Len(s) - m + i]]

\* a reading outside the alert band, with the thresholds written out
Breach(temp, hum) == temp < 18 \/ temp > 40 \/ hum < 30 \/ hum > 75

Done(e) == e.state # "pending"
Dispatched(e) == e.state \in {"sent", "failed"}

\* C1: once loaded, the store holds at most MAX_DATA_POINTS readings and
\* they are the last min(n, MAX_DATA_POINTS) readings of the loaded series
\* followed by the appended ones, in order.
C1_StoreIsTailOfHistory ==
    phase \in {"running", "stopped"} =>
        /\ Len(sensor_data) <= MAX_DATA_POINTS
        /\ sensor_data = TailOf(hist, MAX_DATA_POINTS)

\* C1 witness: a reading was appended to a full store and the oldest one
\* was evicted.
C1_Witness ==
    /\ phase = "running"
    /\ evals # <<>>
    /\ Len(hist) > MAX_DATA_POINTS
    /\ Len(sensor_data) = MAX_DATA_POINTS

\* the pairs of evaluations C2 speaks of: handled one after another, both
\* alert-worthy, destination set and resolved at both, less than
\* ALERT_COOLDOWN apart, and no dispatch of either failing
C2_Pairs ==
    {<<i, j>> \in (DOMAIN evals) \X (DOMAIN evals) :
        /\ i < j
        /\ Done(evals[i]) /\ Done(evals[j])
        /\ Breach(evals[i].temp, evals[i].hum)
        /\ Breach(evals[j].temp, evals[j].hum)
        /\ evals[i].dest /\ evals[j].dest
        /\ evals[i].found /\ evals[j].found
        /\ evals[i].state # "failed" /\ evals[j].state # "failed"
        /\ evals[j].t - evals[i].t < 1800}

\* C2 (as stated): without overlap, any two alert-worthy readings evaluated
\* less than ALERT_COOLDOWN apart produce exactly one alert: the first is
\* dispatched and the second is suppressed.
C2_FirstSentSecondSuppressed ==
    ~overlapped =>
        \A pr \in C2_Pairs :
            evals[pr[1]].state = "sent" /\ evals[pr[2]].state = "skipped"

\* C2 (amended): without overlap, two such readings produce at most one
\* alert, and when the cooldown has elapsed at the first of them (at least
\* ALERT_COOLDOWN since the last alert) exactly one: the first is
\* dispatched and the second is suppressed.
C2_AtMostOneAndFirstWhenElapsed ==
    ~overlapped =>
        \A pr \in C2_Pairs :
            /\ ~(evals[pr[1]].state = "sent" /\ evals[pr[2]].state = "sent")
            /\ evals[pr[1]].state = "sent" => evals[pr[2]].state = "skipped"
            /\ evals[pr[1]].t - evals[pr[1]].last >= 1800 =>
                  evals[pr[1]].state = "sent" /\ evals[pr[2]].state = "skipped"

\* C2 witness: two breaching readings less than ALERT_COOLDOWN apart, the
\* first dispatched and the second suppressed.
C2_Witness ==
    /\ ~overlapped
    /\ \E pr \in C2_Pairs :
          evals[pr[1]].state = "sent" /\ evals[pr[2]].state = "skipped"

\* the condition C3 names: alert-worthy, destination set, cooldown elapsed
C3_Cond(e) == Breach(e.temp, e.hum) /\ e.dest /\ e.t - e.last >= 1800

\* C3 (as stated): an evaluation emits an alert and sets last_alert_time to
\* the evaluation time if and only if the reading is alert-worthy, the
\* destination is set and the cooldown has elapsed; otherwise it emits
\* nothing and leaves last_alert_time unchanged.
C3_AlertIffCondition ==
    \A i \in DOMAIN evals :
        Done(evals[i]) =>
            IF C3_Cond(evals[i])
            THEN Dispatched(evals[i]) /\ evals[i].last_done = evals[i].t
            ELSE ~Dispatched(evals[i])
                 /\ evals[i].last_done = evals[i].last_before_done

\* C3 (amended): an evaluation dispatches an alert if and only if the
\* reading is alert-worthy, the destination is set, the cooldown has
\* elapsed and the destination channel is resolved; it sets last_alert_time
\* to the evaluation time if and only if that dispatch succeeds; in every
\* other case last_alert_time is left unchanged.
C3_AlertIffConditionAndDelivery ==
    \A i \in DOMAIN evals :
        Done(evals[i]) =>
            /\ Dispatched(evals[i]) <=> (C3_Cond(evals[i]) /\ evals[i].found)
            /\ IF evals[i].state = "sent"
               THEN evals[i].last_done = evals[i].t
               ELSE evals[i].last_done = evals[i].last_before_done

\* C3 witness: one evaluation whose alert was delivered and one, equally
\* eligible, whose dispatch failed and left last_alert_time alone.
C3_Witness ==
    /\ \E i \in DOMAIN evals :
          evals[i].state = "sent" /\ last_alert_time = evals[i].t
    /\ \E i \in DOMAIN evals :
          /\ evals[i].state = "failed" /\ C3_Cond(evals[i])
          /\ evals[i].last_done = evals[i].last_before_done

\* C4: a reading is alert-worthy exactly when temp < 18 or temp > 40 or
\* hum < 30 or hum > 75; the boundaries 18, 40, 30 and 75 and everything
\* inside them never are.  (Observed on the evaluations that got past the
\* destination and cooldown guard, where alert_needed is computed.)
C4_AlertWorthyOutsideBand ==
    \A i \in DOMAIN evals :
        evals[i].passed =>
            ((evals[i].state # "quiet") <=> Breach(evals[i].temp, evals[i].hum))

\* C4 witness: a reading on the upper boundaries (40 degrees, 75 percent)
\* was evaluated past the guard and raised no alert, although its reported
\* status is a warning.
C4_Witness ==
    /\ resp.op = "update"
    /\ resp.temp = 40 /\ resp.hum = 75
    /\ resp.temp_status = "warning" /\ resp.hum_status = "warning"
    /\ evals # <<>>
    /\ evals[Len(evals)].passed /\ evals[Len(evals)].state = "quiet"

\* C5: the status report puts every temperature in exactly one band:
\* below 18 too-cold, 18 up to but not including 27 cool, 27 to 35 ideal,
\* above 35 up to 40 warm, above 40 too-hot.
C5_TemperatureBands ==
    (resp.op = "sulcata_status" /\ resp.data) =>
        LET t == resp.temp
        IN  resp.temp_band =
              (CASE t < 18             -> "too-cold"
                 [] 18 <= t /\ t < 27  -> "cool"
                 [] 27 <= t /\ t <= 35 -> "ideal"
                 [] 35 < t /\ t <= 40  -> "warm"
                 [] t > 40             -> "too-hot")

\* C5 witness: the report on a reading of exactly 27 degrees says ideal.
C5_Witness ==
    /\ resp.op = "sulcata_status" /\ resp.data
    /\ resp.temp = 27 /\ resp.temp_band = "ideal"

\* C6: a successful ingestion reports temp_status ok exactly for
\* 27 <= temp <= 35 and hum_status ok exactly for 40 <= hum <= 60, warning
\* otherwise, whatever the alert evaluation did.
C6_StatusFollowsIdealBand ==
    resp.op = "update" =>
        /\ resp.code = 200
        /\ resp.temp_status = (IF 27 <= resp.temp /\ resp.temp <= 35
                               THEN "ok" ELSE "warning")
        /\ resp.hum_status = (IF 40 <= resp.hum /\ resp.hum <= 60
                              THEN "ok" ELSE "warning")

\* C6 witness: a 36 degree reading, inside the alert band, got past the
\* guard, raised no alert and is still reported as a warning.
C6_Witness ==
    /\ resp.op = "update"
    /\ resp.temp = 36 /\ resp.temp_status = "warning"
    /\ resp.hum = 60 /\ resp.hum_status = "ok"
    /\ evals[Len(evals)].passed /\ evals[Len(evals)].state = "quiet"

\* a JSON payload without temp or hum, or with a non-numeric one
MissingOrMalformed(p) ==
    p.json /\ (p.temp.kind \in {"absent", "bad"} \/ p.hum.kind \in {"absent", "bad"})

\* C7: a payload that lacks temp or hum, or carries a non-numeric value for
\* either, is rejected with a client error (4xx), never a server error.
C7_RejectedWithClientError ==
    (resp.op = "update_error" /\ MissingOrMalformed(resp.payload)) =>
        (400 <= resp.code /\ resp.code <= 499)

\* C8: a request rejected for a missing or malformed temp or hum leaves the
\* store, the durable file and the alert state as they were.
C8_RejectedLeavesStateUnchanged ==
    [][(resp'.op = "update_error" /\ MissingOrMalformed(resp'.payload)) =>
          /\ sensor_data' = sensor_data
          /\ file' = file
          /\ last_alert_time' = last_alert_time
          /\ ALERT_CHANNEL_ID' = ALERT_CHANNEL_ID]_vars

\* C8 witness: a request with a valid temp and a malformed hum was rejected
\* by a service that holds readings.
C8_Witness ==
    /\ resp.op = "update_error"
    /\ resp.payload = Payload(Num(41), NonNumeric)
    /\ sensor_data # <<>>
    /\ evals # <<>>

\* the readings ingested by this run that are in the store and not in the
\* durable file
Unsaved ==
    {i \in DOMAIN sensor_data :
        /\ sensor_data[i].time > BootTime
        /\ \A j \in DOMAIN file.data : Deserialize(file.data)[j] # sensor_data[i]}

\* C9: as long as every save succeeds, at most N (the save period) ingested
\* readings are in the store and not in the durable file.
C9_UnsavedAtMostPeriod ==
    ~save_failed => Cardinality(Unsaved) <= SAVE_EVERY

\* C9 witness: with every save so far successful and the file written at
\* least once, the readings ingested since are not in the file.
C9_Witness ==
    /\ ~save_failed
    /\ file.kind = "ok"
    /\ \E j \in DOMAIN file.data : ParseTimestamp(file.data[j].time) > BootTime
    /\ Cardinality(Unsaved) = SAVE_EVERY - 1
    /\ Cardinality(Unsaved) > 0

\* C10: GET /data returns at most `limit` entries, the most recent `limit`
\* readings of the time-filtered series in stored order, for every limit
\* (0 included).
C10_AtMostLimitMostRecent ==
    resp.op = "data" =>
        /\ Len(resp.data) <= resp.limit
        /\ resp.data = Serialize(TailOf(FilterByHours(sensor_data, resp.hours, resp.now),
                                        resp.limit))

(***************************************************************************)
(* C11                                                                     *)
(***************************************************************************)
\* the readings of s with time >= cutoff, in the order of s
RECURSIVE KeptSince(_, _)
KeptSince(s, cutoff) ==
    IF s = <<>> THEN <<>>
    ELSE LET before == KeptSince(SubSeq(s, 1, Len(s) - 1), cutoff)
             last == s[Len(s)]
         IN  IF last.time >= cutoff THEN Append(before, last) ELSE before

\* C11: whenever a query supplies hours (0 included), the entries it keeps
\* are exactly the stored readings with time >= now - hours, in stored
\* order; an empty store or an excluding window gives an empty result.
\* GET /data is read with a limit that keeps every entry.
C11_WindowKeepsExactlyRecent ==
    /\ (resp.op = "data" /\ resp.hours.given /\ resp.limit > Len(sensor_data))
          => resp.data = [i \in DOMAIN KeptSince(sensor_data, resp.now - resp.hours.val * 3600) |->
                            [KeptSince(sensor_data, resp.now - resp.hours.val * 3600)[i]
                               EXCEPT !.time = [iso |-> @]]]
    /\ resp.op = "stats"
          => resp.kept = KeptSince(sensor_data, resp.now - resp.hours * 3600)

(***************************************************************************)
(* C12                                                                     *)
(***************************************************************************)
\* the store a fresh process holds after load_sensor_data() of the file
Reloaded == LoadedData(file, <<>>)

LoadStep == phase \in {"boot", "loaded"} /\ phase' # phase

\* C13 as stated: load returns, and after a load that finds the file
\* missing or unparsable the store is empty, whatever it held before.
C13_LoadEmptiesOnMissingOrUnparsable ==
    [][LoadStep => (file.kind \in {"missing", "corrupt"} => sensor_data' = <<>>)]_vars

\* C13 (amended): load always returns; a load that finds the file missing
\* leaves the store as it was, a load that finds it unparsable leaves the
\* store empty whatever it held before.
C13_LoadKeepsOnMissingEmptiesOnUnparsable ==
    /\ [](phase \in {"boot", "loaded"} => ENABLED Load)
    /\ [][LoadStep => /\ file.kind = "missing" => sensor_data' = sensor_data
                      /\ file.kind = "corrupt" => sensor_data' = <<>>]_vars

\* the file went missing between the two loads: the second load has run and
\* the store still holds what the first one read
C13_Witness ==
    /\ phase = "running" /\ evals = <<>>
    /\ file.kind = "missing"
    /\ sensor_data # <<>>

(***************************************************************************)
(* C14                                                                     *)
(***************************************************************************)
FailedSave(e) == e.save \in {"open_failed", "write_failed"}

\* C14: a failing periodic save is not propagated: the ingestion whose
\* save failed has its reading in the store (it is the newest one until
\* the next ingestion), its alert evaluation has run, and its response,
\* once given, is OK.
C14_SaveFailureNotPropagated ==
    \A i \in DOMAIN evals :
        FailedSave(evals[i]) =>
            /\ evals[i].state # "aborted"
            /\ evals[i].state # "pending" => evals[i].code = 200
            /\ i = Len(evals) =>
                  /\ sensor_data # <<>>
                  /\ sensor_data[Len(sensor_data)].temp = evals[i].temp
                  /\ sensor_data[Len(sensor_data)].hum = evals[i].hum
                  /\ sensor_data[Len(sensor_data)].time = evals[i].t
            /\ (i = Len(evals) /\ resp.op \in {"update", "update_error"})
                  => (resp.op = "update" /\ resp.code = 200)

\* the save of a breaching reading failed while writing; its alert was
\* dispatched all the same and the request was answered OK
C14_Witness ==
    \E i \in DOMAIN evals :
        /\ i = Len(evals)
        /\ evals[i].save = "write_failed"
        /\ evals[i].state = "sent"
        /\ evals[i].code = 200
        /\ file.kind = "corrupt"
        /\ sensor_data[Len(sensor_data)].time = evals[i].t
        /\ resp.op = "update" /\ resp.code = 200

(***************************************************************************)
(* C15                                                                     *)
(***************************************************************************)
\* C15: the cooldown is global across conditions: once an alert has been
\* dispatched (for a temperature or a humidity breach), an alert-worthy
\* reading of any condition evaluated after that dispatch and less than
\* ALERT_COOLDOWN after the alert's reading produces no alert.
C15_CooldownGlobalAcrossConditions ==
    \A i, j \in DOMAIN evals :
        ( /\ i < j
          /\ evals[i].state = "sent"
          /\ i \notin evals[j].waiting
          /\ Breach(evals[j].temp, evals[j].hum)
          /\ evals[j].t - evals[i].t < 1800 )
        => evals[j].state = "skipped"

(***************************************************************************)
(* C16                                                                     *)
(***************************************************************************)
\* C16 as stated: an alert-worthy reading evaluated with the cooldown
\* elapsed and a destination set advances last_alert_time to the
\* evaluation time, whether its dispatch succeeds or fails.
C16_LastAlertAdvancedRegardless ==
    \A i \in DOMAIN evals :
        (Dispatched(evals[i]) /\ C3_Cond(evals[i]))
            => evals[i].last_done = evals[i].t

\* C16 (amended): for such a reading last_alert_time is advanced to the
\* evaluation time exactly when the dispatch succeeds; a dispatch that
\* fails leaves last_alert_time as it was.
C16_LastAlertAdvancedOnlyOnSuccess ==
    \A i \in DOMAIN evals :
        (Dispatched(evals[i]) /\ C3_Cond(evals[i])) =>
            /\ (evals[i].last_done = evals[i].t) <=> (evals[i].state = "sent")
            /\ evals[i].state = "failed"
                  => evals[i].last_done = evals[i].last_before_done

\* the latest reading was eligible, its dispatch failed, and
\* last_alert_time still is the time of an earlier alert
C16_Witness ==
    \E i \in DOMAIN evals :
        /\ i = Len(evals) /\ i > 1
        /\ evals[i].state = "failed" /\ C3_Cond(evals[i])
        /\ last_alert_time = evals[i].last_before_done
        /\ last_alert_time < evals[i].t
        /\ \E j \in 1..(i - 1) : evals[j].state = "sent" /\ last_alert_time = evals[j].t

(***************************************************************************)
(* C17                                                                     *)
(***************************************************************************)
\* a dispatch has been started for the evaluation
Attempted(e) == e.state \in {"pending", "sent", "failed"}

\* each reading has at most one dispatch attempt: the handlers awaiting a
\* send belong to different readings, whose evaluation is not finished
C17_AtMostOneAttempt ==
    /\ \A r1, r2 \in Reqs :
          (req[r1].pc = "sending" /\ req[r2].pc = "sending" /\ r1 # r2)
              => req[r1].idx # req[r2].idx
    /\ \A r \in Reqs :
          req[r].pc = "sending" => evals[req[r].idx].state = "pending"
    /\ \A i \in DOMAIN evals :
          evals[i].state = "pending" => \E r \in Reqs :
              req[r].pc = "sending" /\ req[r].idx = i

\* a failed dispatch is caught: its request is answered OK
C17_FailureCaught ==
    \A i \in DOMAIN evals : evals[i].state = "failed" => evals[i].code = 200

\* C17 as stated: at most one attempt per reading, a failed dispatch is
\* caught, and after a failed dispatch nothing is attempted until a
\* breaching reading that comes a cooldown later.
C17_NoAttemptUntilNextCooldown ==
    /\ C17_AtMostOneAttempt
    /\ C17_FailureCaught
    /\ \A i, j \in DOMAIN evals :
          ( /\ i < j
            /\ evals[i].state = "failed"
            /\ i \notin evals[j].waiting
            /\ Attempted(evals[j]) )
          => (Breach(evals[j].temp, evals[j].hum) /\ evals[j].t - evals[i].t >= 1800)

\* C17 (amended): at most one attempt per reading, a failed dispatch is
\* caught and leaves last_alert_time alone, so that a later breaching
\* reading that finds last_alert_time as the failed one found it is
\* dispatched, however soon it comes.
C17_NoRetryNoCooldownAfterFailure ==
    /\ C17_AtMostOneAttempt
    /\ C17_FailureCaught
    /\ \A i, j \in DOMAIN evals :
          ( /\ i < j
            /\ evals[i].state = "failed"
            /\ evals[j].last = evals[i].last
            /\ Breach(evals[j].temp, evals[j].hum)
            /\ evals[j].dest /\ evals[j].found )
          => Attempted(evals[j])
    /\ \A j \in DOMAIN evals :
          Attempted(evals[j]) => Breach(evals[j].temp, evals[j].hum)

\* a dispatch failed and was answered OK; the breaching reading that came
\* 10 s later was dispatched
C17_Witness ==
    \E i, j \in DOMAIN evals :
        /\ j = i + 1
        /\ evals[i].state = "failed" /\ evals[i].code = 200
        /\ evals[j].waiting = {}
        /\ evals[j].t - evals[i].t = 10
        /\ evals[j].state = "sent"

(***************************************************************************)
(* C18                                                                     *)
(***************************************************************************)
Filled(ys) == \A i \in DOMAIN ys : ~ys[i].nan

\* C18: for every filtered series and every window the rolling-average
\* command accepts (len(series) >= window) the smoothed output is as long
\* as the input and, after forward-fill and backward-fill, has a value at
\* every position; with len(series) < window (or nothing to plot) the
\* command reports insufficient data.
C18_RollingFilledOrInsufficient ==
    resp.op = "plot_rolling" =>
        IF resp.series # <<>> /\ Len(resp.series) >= resp.window
        THEN /\ resp.result = "plot"
             /\ Len(resp.temp_smooth) = Len(resp.series)
             /\ Len(resp.hum_smooth) = Len(resp.series)
             /\ Filled(resp.temp_smooth) /\ Filled(resp.hum_smooth)
        ELSE resp.result \in {"no_data_yet", "not_enough_data"}

(***************************************************************************)
(* C19                                                                     *)
(***************************************************************************)
\* C19: in every interleaving of overlapping ingestion requests the
\* cooldown holds: no two delivered alerts have evaluation times less than
\* ALERT_COOLDOWN apart.
C19_CooldownHoldsUnderOverlap ==
    \A i, j \in DOMAIN evals :
        (i < j /\ evals[i].state = "sent" /\ evals[j].state = "sent")
            => evals[j].t - evals[i].t >= 1800

(***************************************************************************)
(* C20                                                                     *)
(***************************************************************************)
\* C20: append, eviction and save of an ingestion happen without a
\* suspension, so in every state another handler can run in (the
\* ingesting handler has responded or is suspended at the alert dispatch)
\* the store holds at most MAX_DATA_POINTS readings, the eviction of every
\* appended reading has been applied, and what the health and query
\* handlers report is such a store.
C20_NoHandlerSeesUntrimmedStore ==
    /\ Len(sensor_data) <= MAX_DATA_POINTS
    /\ Len(hist) >= MAX_DATA_POINTS => Len(sensor_data) = MAX_DATA_POINTS
    /\ (phase = "running" /\ evals # <<>>)
          => sensor_data[Len(sensor_data)].time = evals[Len(evals)].t
    /\ resp.op = "health" => resp.data_points = Len(sensor_data)
    /\ resp.op = "data" => Len(resp.data) <= MAX_DATA_POINTS

\* the health check runs while two ingestions are suspended at their alert
\* dispatch; their readings are in the store, which is at its bound after
\* evictions
C20_Witness ==
    /\ \A r \in Reqs : req[r].pc = "sending"
    /\ Len(hist) > MAX_DATA_POINTS
    /\ Len(sensor_data) = MAX_DATA_POINTS
    /\ resp.op = "health" /\ resp.data_points = MAX_DATA_POINTS

(***************************************************************************)
(* C21                                                                     *)
(***************************************************************************)
\* a step of GET /data, GET /health or a read-only chat command
QueryStep ==
    /\ resp'.op \in {"data", "health", "sulcata_status", "stats", "plot_rolling"}
    /\ "alert_channel" \notin DOMAIN resp'

\* C21: queries are read-only and isolated: GET /data, GET /health and
\* the read-only chat commands leave the store, the durable file and the
\* alert state as they were, also while ingestions are suspended at their
\* dispatch; what GET /data returns is the store as it was when the
\* handler copied it, and the ingestions that follow append to a store
\* the query left whole.
C21_QueriesReadOnlyAndIsolated ==
    [][QueryStep =>
         /\ UNCHANGED <<sensor_data, file, ALERT_CHANNEL_ID, last_alert_time,
                        channel_cached, req, hist>>
         /\ (resp'.op = "data" /\ ~resp'.hours.given /\ resp'.limit > Len(sensor_data))
               => /\ Len(resp'.data) = Len(sensor_data)
                  /\ \A i \in DOMAIN sensor_data :
                        /\ resp'.data[i].temp = sensor_data[i].temp
                        /\ resp'.data[i].hum = sensor_data[i].hum
                        /\ resp'.data[i].time = [iso |-> sensor_data[i].time]
         /\ resp'.op = "health" => resp'.data_points = Len(sensor_data)]_vars

\* GET /data has answered with the whole store while two ingestions were
\* suspended at their dispatch, and left the store as it was
C21_Witness ==
    /\ resp.op = "data"
    /\ \A r \in Reqs : req[r].pc = "sending"
    /\ Len(resp.data) = MAX_DATA_POINTS
    /\ Len(sensor_data) = MAX_DATA_POINTS
    /\ resp.data[Len(resp.data)].time = [iso |-> evals[Len(evals)].t]

(***************************************************************************)
(* C22                                                                     *)
(***************************************************************************)
\* C22: last_alert_time never decreases, also when several handlers that
\* captured their own evaluation time are suspended at the dispatch and
\* resume in another order.
C22_LastAlertTimeNeverDecreases ==
    [][last_alert_time' >= last_alert_time]_vars

====
